---- MODULE Spec2Model ----
(***************************************************************************)
(* Model of src/JavaScriptObfuscator.ts: the orchestrator that parses a    *)
(* source text, drives the transformers runner through the transformation  *)
(* stages, generates code and hands the output to the source map           *)
(* corrector.  The parser, the transformers runner, the generator, the     *)
(* corrector, the random generator and the logger are collaborators: a     *)
(* call to one of them returns a value or throws.                          *)
(***************************************************************************)
EXTENDS Integers, Sequences, FiniteSets, TLC

VARIABLES
    pc,               \* position of the one obfuscate() call in flight
    options,          \* this.options of the instance in use
    sourceCode,       \* argument of obfuscate()
    parsedTree,       \* obfuscate(): const astTree (line 119)
    astTree,          \* transformAstTree(): astTree, then obfuscatedAstTree
    generatorOutput,  \* obfuscate(): const generatorOutput (line 125)
    result,           \* value returned by obfuscate() to its caller
    error,            \* value thrown by obfuscate() to its caller
    raised,           \* which collaborator call threw during the call, and what
    trace,            \* logger and collaborator calls of the call, in order
    parseArgs,        \* arguments of every EsprimaFacade.parse call
    transformArgs,    \* arguments of every transformersRunner.transform call
    generateArgs,     \* arguments of every escodegen.generate call
    correctArgs,      \* arguments of every sourceMapCorrector.correct call
    nextId,           \* next unused object identity for a tree
    escodegenParams,  \* static JavaScriptObfuscator.escodegenParams
    transformersList, \* static JavaScriptObfuscator.transformersList
    sourceMapUsed     \* an earlier generateCode call ran with options.sourceMap

vars == <<pc, options, sourceCode, parsedTree, astTree, generatorOutput,
          result, error, raised, trace, parseArgs, transformArgs,
          generateArgs, correctArgs, nextId, escodegenParams,
          transformersList, sourceMapUsed>>

----------------------------------------------------------------------------
(* Bounds of the model *)

MaxBody == 1          \* a program has 0..MaxBody top-level statements
MaxComments == 1      \* a comment array holds 1..MaxComments comments
NumSources == 2       \* number of distinct source texts
NumMaps == 1          \* number of distinct source map objects

----------------------------------------------------------------------------
(* JavaScript values *)

Undefined == [t |-> "undefined"]
Null == [t |-> "null"]
Str(s) == [t |-> "string", v |-> s]
Bool(b) == [t |-> "boolean", v |-> b]
Arr(n) == [t |-> "array", n |-> n]
Obj(k) == [t |-> "object", k |-> k]

\* ToBoolean, as applied by `!x` and `x ? a : b`
Truthy(x) ==
    CASE x.t = "undefined" -> FALSE
      [] x.t = "null" -> FALSE
      [] x.t = "string" -> x.v # ""
      [] x.t = "boolean" -> x.v
      [] OTHER -> TRUE

MapKeys == 1..NumMaps
MapJSON == [k \in MapKeys |-> "{\"version\":3}"]
\* SourceMapGenerator.prototype.toString of the object the generator returned
MapToString(x) == Str(MapJSON[x.k])

Sources == {IF i = 1 THEN "" ELSE "var x = 1;" : i \in 1..NumSources}

NoTree == [id |-> 0, type |-> "none", body |-> 0, leadingComments |-> Undefined]
NoOutput == [code |-> "none", map |-> Undefined]
NoResult == [obfuscatedCode |-> "none", sourceMap |-> Undefined]
NoError == [name |-> "none", stage |-> "none"]
NoRaise == [by |-> "none", stage |-> "none", pos |-> 0, e |-> NoError]

\* errors the collaborators throw; none of them carries a stage
ParseFaults == {[name |-> "SyntaxError", stage |-> "none"]}
TransformFaults == {[name |-> "TypeError", stage |-> "none"],
                    [name |-> "ReferenceError", stage |-> "none"]}
GenerateFaults == {[name |-> "Error", stage |-> "none"]}
CorrectFaults == {[name |-> "Error", stage |-> "none"]}

----------------------------------------------------------------------------
(* Static members *)

EscodegenParamsStatic ==
    [comment |-> Bool(TRUE),
     verbatim |-> Str("x-verbatim-property"),
     sourceMapWithCode |-> Bool(TRUE),
     sourceMap |-> Undefined,
     sourceContent |-> Undefined]

TransformersListStatic ==
    <<"BlockStatementControlFlowTransformer",
      "ClassDeclarationTransformer",
      "CommentsTransformer",
      "CustomNodesTransformer",
      "DeadCodeInjectionTransformer",
      "EvalCallExpressionTransformer",
      "FunctionControlFlowTransformer",
      "CatchClauseTransformer",
      "FunctionDeclarationTransformer",
      "FunctionTransformer",
      "LabeledStatementTransformer",
      "LiteralTransformer",
      "MemberExpressionTransformer",
      "MethodDefinitionTransformer",
      "ObfuscatingGuardsTransformer",
      "ObjectExpressionKeysTransformer",
      "ObjectExpressionTransformer",
      "ParentificationTransformer",
      "StringArrayTransformer",
      "TemplateLiteralTransformer",
      "VariableDeclarationTransformer">>

TransformationStage ==
    {"Preparing", "DeadCodeInjection", "ControlFlowFlattening",
     "Converting", "Obfuscating", "Finalizing"}

Options ==
    [deadCodeInjection : BOOLEAN,
     controlFlowFlattening : BOOLEAN,
     sourceMap : BOOLEAN,
     compact : BOOLEAN]

----------------------------------------------------------------------------
(* Events of the trace *)

Info(msg, arg) == [ev |-> "info", msg |-> msg, arg |-> arg]
Warn(msg) == [ev |-> "warn", msg |-> msg, arg |-> ""]
Success(msg) == [ev |-> "success", msg |-> msg, arg |-> ""]
Call(name, arg) == [ev |-> name, msg |-> "", arg |-> arg]

----------------------------------------------------------------------------
(* Collaborators *)

\* trees EsprimaFacade.parse can return: a Program whose leadingComments is
\* absent or a non-empty array
ParseOutputs(id) ==
    {[id |-> id, type |-> "Program", body |-> b, leadingComments |-> c] :
        b \in 0..MaxBody,
        c \in {Undefined} \cup {Arr(n) : n \in 1..MaxComments}}

\* trees transformersRunner.transform can return for the tree t: the same
\* object or a new one (the orchestrator reads the statements of a tree only
\* once, before the first stage)
TransformOutputs(t, fresh) == {t, [t EXCEPT !.id = fresh]}

\* escodegen.generate(..., {sourceMapWithCode: true}): map is a
\* SourceMapGenerator when params.sourceMap is set, else null
GenerateOutputs(params) ==
    {[code |-> c, map |-> m] :
        c \in {"", "var a=1;"},
        m \in IF Truthy(params.sourceMap)
                THEN {Obj(k) : k \in MapKeys}
                ELSE {Null, Undefined}}

\* sourceMapCorrector.correct(code, map): packages the text and the mapping
CorrectOutputs(code, map) ==
    {[obfuscatedCode |-> c, sourceMap |-> map] :
        c \in {code} \cup
              (IF Truthy(map) THEN {code \o "//# sourceMappingURL"} ELSE {})}

----------------------------------------------------------------------------
(* Initial state: an instance has been constructed, no call is in flight *)

Init ==
    /\ pc = "idle"
    /\ options \in Options
    /\ sourceCode = ""
    /\ parsedTree = NoTree
    /\ astTree = NoTree
    /\ generatorOutput = NoOutput
    /\ result = NoResult
    /\ error = NoError
    /\ raised = NoRaise
    /\ trace = <<>>
    /\ parseArgs = <<>>
    /\ transformArgs = <<>>
    /\ generateArgs = <<>>
    /\ correctArgs = <<>>
    /\ nextId = 1
    /\ escodegenParams = EscodegenParamsStatic
    /\ transformersList = TransformersListStatic
    /\ sourceMapUsed = FALSE

statics == <<escodegenParams, transformersList>>
callLogs == <<parseArgs, transformArgs, generateArgs, correctArgs>>

\* the collaborator call `by`, the event at position pos of the trace,
\* throws e
Raise(by, stage, pos, e) == [by |-> by, stage |-> stage, pos |-> pos, e |-> e]

ThrowWrapped(r) ==
    /\ pc' = "threw"
    /\ error' = [name |-> "Error", stage |-> "none"]
    /\ raised' = r

\* no try/catch anywhere in the class: what a collaborator throws leaves
\* obfuscate() as it is
Throw(r) ==
    /\ pc' = "threw"
    /\ error' = r.e
    /\ raised' = r

----------------------------------------------------------------------------
(* new JavaScriptObfuscator(..., options): another instance, with its own   *)
(* options, replaces the one in use; the static members are shared          *)

Constructor ==
    /\ pc = "idle"
    /\ \E o \in Options : options' = o
    /\ UNCHANGED <<pc, sourceCode, parsedTree, astTree, generatorOutput,
                   result, error, raised, trace, callLogs, nextId, statics,
                   sourceMapUsed>>

(* the caller has received the result or the error of obfuscate() and drops *)
(* it; nothing of the call is retained by the instance                      *)
Release ==
    /\ pc \in {"returned", "threw"}
    /\ pc' = "idle"
    /\ sourceCode' = ""
    /\ parsedTree' = NoTree
    /\ astTree' = NoTree
    /\ generatorOutput' = NoOutput
    /\ result' = NoResult
    /\ error' = NoError
    /\ raised' = NoRaise
    /\ trace' = <<>>
    /\ parseArgs' = <<>>
    /\ transformArgs' = <<>>
    /\ generateArgs' = <<>>
    /\ correctArgs' = <<>>
    /\ nextId' = 1
    /\ UNCHANGED <<options, statics,
                   sourceMapUsed>>

(* obfuscate(sourceCode), lines 113-116 *)
Obfuscate ==
    /\ pc = "idle"
    /\ \E src \in Sources : sourceCode' = src
    /\ pc' = "parseCode"
    /\ trace' = <<Info("Version", "packageJson.version"),
                  Info("ObfuscationStarted", ""),
                  Call("getSeed", ""),
                  Info("RandomGeneratorSeed", "seed")>>
    /\ parsedTree' = NoTree
    /\ astTree' = NoTree
    /\ generatorOutput' = NoOutput
    /\ result' = NoResult
    /\ error' = NoError
    /\ raised' = NoRaise
    /\ parseArgs' = <<>>
    /\ transformArgs' = <<>>
    /\ generateArgs' = <<>>
    /\ correctArgs' = <<>>
    /\ nextId' = 1
    /\ UNCHANGED <<options, statics,
                   sourceMapUsed>>

(* parseCode(sourceCode), lines 119 and 137-142 *)
ParseCodeRetry ==
    /\ pc = "parseCode"
    /\ trace' = Append(trace, Call("parse", sourceCode))
    /\ parseArgs' = Append(parseArgs,
            [sourceCode |-> sourceCode, attachComment |-> TRUE,
             loc |-> options.sourceMap])
    /\ \/ \E t \in ParseOutputs(nextId) :
            /\ parsedTree' = t
            /\ astTree' = t
            /\ nextId' = nextId + 1
            /\ pc' = "transformAstTree"
            /\ UNCHANGED <<error, raised>>
       \/ \E e \in ParseFaults :
            /\ IF Len(parseArgs) = 0
                 THEN /\ pc' = "parseCode"
                      /\ raised' = Raise("parse", "none", Len(trace) + 1, e)
                      /\ error' = error
                 ELSE Throw(Raise("parse", "none", Len(trace) + 1, e))
            /\ UNCHANGED <<parsedTree, astTree, nextId>>
    /\ UNCHANGED <<options, sourceCode, generatorOutput, result,
                   transformArgs, generateArgs, correctArgs, statics,
                   sourceMapUsed>>

ParseCode ==
    /\ pc = "parseCode"
    /\ trace' = Append(trace, Call("parse", sourceCode))
    /\ parseArgs' = Append(parseArgs,
            [sourceCode |-> sourceCode, attachComment |-> TRUE,
             loc |-> options.sourceMap])
    /\ \/ \E t \in ParseOutputs(nextId) :
            /\ parsedTree' = t
            /\ astTree' = t
            /\ nextId' = nextId + 1
            /\ pc' = "transformAstTree"
            /\ UNCHANGED <<error, raised>>
       \/ \E e \in ParseFaults :
            /\ Throw(Raise("parse", "none", Len(trace) + 1, e))
            /\ UNCHANGED <<parsedTree, astTree, nextId>>
    /\ UNCHANGED <<options, sourceCode, generatorOutput, result,
                   transformArgs, generateArgs, correctArgs, statics,
                   sourceMapUsed>>

\* NodeGuards.isProgramNode
IsProgramNode(t) == t.type = "Program"

IsEmptyAstTreeIgnoreComments(t) ==
    /\ IsProgramNode(t)
    /\ ~(t.body # 0)

IsEmptyAstTreeNegated(t) ==
    /\ IsProgramNode(t)
    /\ t.body # 0
    /\ ~Truthy(t.leadingComments)

\* transformAstTree, lines 149-151: const isEmptyAstTree
IsEmptyAstTree(t) ==
    /\ IsProgramNode(t)
    /\ ~(t.body # 0)
    /\ ~Truthy(t.leadingComments)

TransformAstTreeNoWarn ==
    /\ pc = "transformAstTree"
    /\ IF IsEmptyAstTree(astTree)
         THEN pc' = "generateCode"
         ELSE pc' = "Preparing"
    /\ UNCHANGED <<options, sourceCode, parsedTree, astTree, generatorOutput,
                   result, error, raised, trace, callLogs, nextId, statics,
                   sourceMapUsed>>

(* transformAstTree, lines 149-157: the empty-tree early return *)
TransformAstTree ==
    /\ pc = "transformAstTree"
    /\ IF IsEmptyAstTree(astTree)
         THEN /\ trace' = Append(trace, Warn("EmptySourceCode"))
              /\ pc' = "generateCode"
         ELSE /\ trace' = trace
              /\ pc' = "Preparing"
    /\ UNCHANGED <<options, sourceCode, parsedTree, astTree, generatorOutput,
                   result, error, raised, callLogs, nextId, statics,
                   sourceMapUsed>>

----------------------------------------------------------------------------
(* runTransformationStage(astTree, transformationStage), lines 219-227;     *)
(* nextPc is where transformAstTree continues after the assignment          *)

RunTransformationStageSwallow(stage, nextPc) ==
    /\ trace' = Append(Append(trace, Info("TransformationStage", stage)),
                       Call("transform", stage))
    /\ \/ \E out \in TransformOutputs(astTree, nextId) :
            /\ astTree' = out
            /\ nextId' = IF out.id = nextId THEN nextId + 1 ELSE nextId
            /\ transformArgs' = Append(transformArgs,
                    [stage |-> stage, astTree |-> astTree,
                     transformers |-> transformersList,
                     out |-> out])
            /\ pc' = nextPc
            /\ UNCHANGED <<error, raised>>
       \/ \E e \in TransformFaults :
            /\ transformArgs' = Append(transformArgs,
                    [stage |-> stage, astTree |-> astTree,
                     transformers |-> transformersList,
                     out |-> NoTree])
            /\ pc' = nextPc
            /\ raised' = Raise("transform", stage, Len(trace) + 2, e)
            /\ UNCHANGED <<astTree, nextId, error>>
    /\ UNCHANGED <<options, sourceCode, parsedTree, generatorOutput, result,
                   parseArgs, generateArgs, correctArgs, statics,
                   sourceMapUsed>>

RunTransformationStageLogAfter(stage, nextPc) ==
    /\ \/ \E out \in TransformOutputs(astTree, nextId) :
            /\ trace' = Append(Append(trace, Call("transform", stage)),
                               Info("TransformationStage", stage))
            /\ astTree' = out
            /\ nextId' = IF out.id = nextId THEN nextId + 1 ELSE nextId
            /\ transformArgs' = Append(transformArgs,
                    [stage |-> stage, astTree |-> astTree,
                     transformers |-> transformersList,
                     out |-> out])
            /\ pc' = nextPc
            /\ UNCHANGED <<error, raised>>
       \/ \E e \in TransformFaults :
            /\ trace' = Append(trace, Call("transform", stage))
            /\ transformArgs' = Append(transformArgs,
                    [stage |-> stage, astTree |-> astTree,
                     transformers |-> transformersList,
                     out |-> NoTree])
            /\ Throw(Raise("transform", stage, Len(trace) + 1, e))
            /\ UNCHANGED <<astTree, nextId>>
    /\ UNCHANGED <<options, sourceCode, parsedTree, generatorOutput, result,
                   parseArgs, generateArgs, correctArgs, statics,
                   sourceMapUsed>>

RunTransformationStageDropResult(stage, nextPc) ==
    /\ trace' = Append(Append(trace, Info("TransformationStage", stage)),
                       Call("transform", stage))
    /\ \/ \E out \in TransformOutputs(astTree, nextId) :
            /\ astTree' = astTree
            /\ nextId' = IF out.id = nextId THEN nextId + 1 ELSE nextId
            /\ transformArgs' = Append(transformArgs,
                    [stage |-> stage, astTree |-> astTree,
                     transformers |-> transformersList,
                     out |-> out])
            /\ pc' = nextPc
            /\ UNCHANGED <<error, raised>>
       \/ \E e \in TransformFaults :
            /\ transformArgs' = Append(transformArgs,
                    [stage |-> stage, astTree |-> astTree,
                     transformers |-> transformersList,
                     out |-> NoTree])
            /\ Throw(Raise("transform", stage, Len(trace) + 2, e))
            /\ UNCHANGED <<astTree, nextId>>
    /\ UNCHANGED <<options, sourceCode, parsedTree, generatorOutput, result,
                   parseArgs, generateArgs, correctArgs, statics,
                   sourceMapUsed>>

RunTransformationStageFiltered(stage, nextPc) ==
    /\ trace' = Append(Append(trace, Info("TransformationStage", stage)),
                       Call("transform", stage))
    /\ \/ \E out \in TransformOutputs(astTree, nextId) :
            /\ astTree' = out
            /\ nextId' = IF out.id = nextId THEN nextId + 1 ELSE nextId
            /\ transformArgs' = Append(transformArgs,
                    [stage |-> stage, astTree |-> astTree,
                     transformers |->
                        IF stage = "DeadCodeInjection"
                          THEN <<"DeadCodeInjectionTransformer">>
                          ELSE transformersList,
                     out |-> out])
            /\ pc' = nextPc
            /\ UNCHANGED <<error, raised>>
       \/ \E e \in TransformFaults :
            /\ transformArgs' = Append(transformArgs,
                    [stage |-> stage, astTree |-> astTree,
                     transformers |->
                        IF stage = "DeadCodeInjection"
                          THEN <<"DeadCodeInjectionTransformer">>
                          ELSE transformersList,
                     out |-> NoTree])
            /\ Throw(Raise("transform", stage, Len(trace) + 2, e))
            /\ UNCHANGED <<astTree, nextId>>
    /\ UNCHANGED <<options, sourceCode, parsedTree, generatorOutput, result,
                   parseArgs, generateArgs, correctArgs, statics,
                   sourceMapUsed>>

RunTransformationStage(stage, nextPc) ==
    /\ trace' = Append(Append(trace, Info("TransformationStage", stage)),
                       Call("transform", stage))
    /\ \/ \E out \in TransformOutputs(astTree, nextId) :
            /\ astTree' = out
            /\ nextId' = IF out.id = nextId THEN nextId + 1 ELSE nextId
            /\ transformArgs' = Append(transformArgs,
                    [stage |-> stage, astTree |-> astTree,
                     transformers |-> transformersList,
                     out |-> out])
            /\ pc' = nextPc
            /\ UNCHANGED <<error, raised>>
       \/ \E e \in TransformFaults :
            /\ transformArgs' = Append(transformArgs,
                    [stage |-> stage, astTree |-> astTree,
                     transformers |-> transformersList,
                     out |-> NoTree])
            /\ Throw(Raise("transform", stage, Len(trace) + 2, e))
            /\ UNCHANGED <<astTree, nextId>>
    /\ UNCHANGED <<options, sourceCode, parsedTree, generatorOutput, result,
                   parseArgs, generateArgs, correctArgs, statics,
                   sourceMapUsed>>

\* transformAstTree continues at nextPc without calling the runner
SkipStage(nextPc) ==
    /\ pc' = nextPc
    /\ UNCHANGED <<options, sourceCode, parsedTree, astTree, generatorOutput,
                   result, error, raised, trace, callLogs, nextId, statics,
                   sourceMapUsed>>

(* transformAstTree, line 159 *)
StagePreparing ==
    /\ pc = "Preparing"
    /\ RunTransformationStage("Preparing", "DeadCodeInjection")

DeadCodeInjectionGateAlways == TRUE

DeadCodeInjectionGateWrongFlag == options.controlFlowFlattening

\* transformAstTree, line 161: the condition of the if
DeadCodeInjectionGate == options.deadCodeInjection

(* transformAstTree, lines 161-163 *)
StageDeadCodeInjection ==
    /\ pc = "DeadCodeInjection"
    /\ IF DeadCodeInjectionGate
         THEN RunTransformationStage("DeadCodeInjection",
                                     "ControlFlowFlattening")
         ELSE SkipStage("ControlFlowFlattening")

ControlFlowFlatteningGateNever == FALSE

\* transformAstTree, line 165: the condition of the if
ControlFlowFlatteningGate == options.controlFlowFlattening

(* transformAstTree, lines 165-167 *)
StageControlFlowFlattening ==
    /\ pc = "ControlFlowFlattening"
    /\ IF ControlFlowFlatteningGate
         THEN RunTransformationStage("ControlFlowFlattening", "Converting")
         ELSE SkipStage("Converting")

StageConvertingTwice ==
    /\ pc = "Converting"
    /\ RunTransformationStage("Converting",
            IF \E i \in 1..Len(transformArgs) :
                    transformArgs[i].stage = "Converting"
              THEN "Obfuscating" ELSE "Converting")

(* transformAstTree, line 169 *)
StageConverting ==
    /\ pc = "Converting"
    /\ RunTransformationStage("Converting", "Obfuscating")

StageObfuscatingReenter ==
    /\ pc = "Obfuscating"
    /\ RunTransformationStage("Obfuscating",
            IF Len(transformArgs) < 6 THEN "Converting" ELSE "Finalizing")

(* transformAstTree, line 170 *)
StageObfuscating ==
    /\ pc = "Obfuscating"
    /\ RunTransformationStage("Obfuscating", "Finalizing")

(* transformAstTree, lines 171-173 *)
StageFinalizing ==
    /\ pc = "Finalizing"
    /\ RunTransformationStage("Finalizing", "generateCode")

----------------------------------------------------------------------------
(* generateCode(sourceCode, astTree), lines 181-201 *)

GenerateParamsCompactWithMapOnly(base, opts, src) ==
    [comment |-> base.comment,
     verbatim |-> base.verbatim,
     sourceMapWithCode |-> base.sourceMapWithCode,
     sourceMap |-> IF opts.sourceMap THEN Str("sourceMap") ELSE base.sourceMap,
     sourceContent |-> IF opts.sourceMap THEN Str(src) ELSE base.sourceContent,
     format |-> [compact |-> opts.sourceMap /\ opts.compact]]

\* lines 182-196: the options object handed to escodegen.generate
GenerateParams(base, opts, src) ==
    [comment |-> base.comment,
     verbatim |-> base.verbatim,
     sourceMapWithCode |-> base.sourceMapWithCode,
     sourceMap |-> IF opts.sourceMap THEN Str("sourceMap") ELSE base.sourceMap,
     sourceContent |-> IF opts.sourceMap THEN Str(src) ELSE base.sourceContent,
     format |-> [compact |-> opts.compact]]

NormalizeMapIdentity(m) == m

\* line 198: generatorOutput.map ? generatorOutput.map.toString() : ''
NormalizeMap(m) == IF Truthy(m) THEN MapToString(m) ELSE Str("")

GenerateCodeSwallow ==
    /\ pc = "generateCode"
    /\ LET params == GenerateParams(escodegenParams, options, sourceCode) IN
        /\ trace' = Append(trace, Call("generate", ""))
        /\ generateArgs' = Append(generateArgs,
                [astTree |-> astTree, params |-> params])
        /\ \/ \E out \in GenerateOutputs(params) :
                /\ generatorOutput' = [out EXCEPT !.map = NormalizeMap(out.map)]
                /\ pc' = "logSuccess"
                /\ UNCHANGED <<error, raised>>
           \/ \E e \in GenerateFaults :
                /\ generatorOutput' = [code |-> "", map |-> Str("")]
                /\ pc' = "logSuccess"
                /\ raised' = Raise("generate", "none", Len(trace) + 1, e)
                /\ UNCHANGED error
    /\ sourceMapUsed' = (sourceMapUsed \/ options.sourceMap)
    /\ UNCHANGED <<options, sourceCode, parsedTree, astTree, result,
                   parseArgs, transformArgs, correctArgs, nextId, statics>>

GenerateCodeSharedParams ==
    /\ pc = "generateCode"
    /\ LET params == GenerateParams(escodegenParams, options, sourceCode) IN
        /\ trace' = Append(trace, Call("generate", ""))
        /\ generateArgs' = Append(generateArgs,
                [astTree |-> astTree, params |-> params])
        /\ escodegenParams' =
                [escodegenParams EXCEPT !.sourceMap = params.sourceMap,
                                        !.sourceContent = params.sourceContent]
        /\ \/ \E out \in GenerateOutputs(params) :
                /\ generatorOutput' = [out EXCEPT !.map = NormalizeMap(out.map)]
                /\ pc' = "logSuccess"
                /\ UNCHANGED <<error, raised>>
           \/ \E e \in GenerateFaults :
                /\ Throw(Raise("generate", "none", Len(trace) + 1, e))
                /\ UNCHANGED generatorOutput
    /\ sourceMapUsed' = (sourceMapUsed \/ options.sourceMap)
    /\ UNCHANGED <<options, sourceCode, parsedTree, astTree, result,
                   parseArgs, transformArgs, correctArgs, nextId,
                   transformersList>>

GenerateCode ==
    /\ pc = "generateCode"
    /\ LET params == GenerateParams(escodegenParams, options, sourceCode) IN
        /\ trace' = Append(trace, Call("generate", ""))
        /\ generateArgs' = Append(generateArgs,
                [astTree |-> astTree, params |-> params])
        /\ \/ \E out \in GenerateOutputs(params) :
                /\ generatorOutput' = [out EXCEPT !.map = NormalizeMap(out.map)]
                /\ pc' = "logSuccess"
                /\ UNCHANGED <<error, raised>>
           \/ \E e \in GenerateFaults :
                /\ Throw(Raise("generate", "none", Len(trace) + 1, e))
                /\ UNCHANGED generatorOutput
    /\ sourceMapUsed' = (sourceMapUsed \/ options.sourceMap)
    /\ UNCHANGED <<options, sourceCode, parsedTree, astTree, result,
                   parseArgs, transformArgs, correctArgs, nextId, statics>>

LogSuccessSkipped ==
    /\ pc = "logSuccess"
    /\ pc' = "getObfuscationResult"
    /\ UNCHANGED <<options, sourceCode, parsedTree, astTree, generatorOutput,
                   result, error, raised, trace, callLogs, nextId, statics,
                   sourceMapUsed>>

(* obfuscate, lines 127-128 *)
LogSuccess ==
    /\ pc = "logSuccess"
    /\ trace' = Append(trace, Success("ObfuscationCompleted"))
    /\ pc' = "getObfuscationResult"
    /\ UNCHANGED <<options, sourceCode, parsedTree, astTree, generatorOutput,
                   result, error, raised, callLogs, nextId, statics,
                   sourceMapUsed>>

(* getObfuscationResult(generatorOutput), lines 130 and 207-212 *)
GetObfuscationResultRepackage ==
    /\ pc = "getObfuscationResult"
    /\ trace' = Append(trace, Call("correct", ""))
    /\ \/ \E r \in CorrectOutputs(generatorOutput.code, generatorOutput.map) :
            /\ correctArgs' = Append(correctArgs,
                    [code |-> generatorOutput.code,
                     map |-> generatorOutput.map, out |-> r])
            /\ result' = [obfuscatedCode |-> generatorOutput.code,
                          sourceMap |-> generatorOutput.map]
            /\ pc' = "returned"
            /\ UNCHANGED <<error, raised>>
       \/ \E e \in CorrectFaults :
            /\ correctArgs' = Append(correctArgs,
                    [code |-> generatorOutput.code,
                     map |-> generatorOutput.map, out |-> NoResult])
            /\ Throw(Raise("correct", "none", Len(trace) + 1, e))
            /\ UNCHANGED result
    /\ UNCHANGED <<options, sourceCode, parsedTree, astTree, generatorOutput,
                   parseArgs, transformArgs, generateArgs, nextId, statics,
                   sourceMapUsed>>

GetObfuscationResult ==
    /\ pc = "getObfuscationResult"
    /\ trace' = Append(trace, Call("correct", ""))
    /\ \/ \E r \in CorrectOutputs(generatorOutput.code, generatorOutput.map) :
            /\ correctArgs' = Append(correctArgs,
                    [code |-> generatorOutput.code,
                     map |-> generatorOutput.map, out |-> r])
            /\ result' = r
            /\ pc' = "returned"
            /\ UNCHANGED <<error, raised>>
       \/ \E e \in CorrectFaults :
            /\ correctArgs' = Append(correctArgs,
                    [code |-> generatorOutput.code,
                     map |-> generatorOutput.map, out |-> NoResult])
            /\ Throw(Raise("correct", "none", Len(trace) + 1, e))
            /\ UNCHANGED result
    /\ UNCHANGED <<options, sourceCode, parsedTree, astTree, generatorOutput,
                   parseArgs, transformArgs, generateArgs, nextId, statics,
                   sourceMapUsed>>

----------------------------------------------------------------------------

Next ==
    \/ Constructor
    \/ Obfuscate
    \/ Release
    \/ ParseCode
    \/ TransformAstTree
    \/ StagePreparing
    \/ StageDeadCodeInjection
    \/ StageControlFlowFlattening
    \/ StageConverting
    \/ StageObfuscating
    \/ StageFinalizing
    \/ GenerateCode
    \/ LogSuccess
    \/ GetObfuscationResult

Spec == Init /\ [][Next]_vars

\* the steps of a call in flight: obfuscate() is synchronous straight-line
\* code, so once called it takes its next step as soon as the collaborator
\* it is calling returns or throws
CallStep ==
    \/ ParseCode
    \/ TransformAstTree
    \/ StagePreparing
    \/ StageDeadCodeInjection
    \/ StageControlFlowFlattening
    \/ StageConverting
    \/ StageObfuscating
    \/ StageFinalizing
    \/ GenerateCode
    \/ LogSuccess
    \/ GetObfuscationResult

FairSpec == Init /\ [][Next]_vars /\ WF_vars(CallStep)

----------------------------------------------------------------------------
(* Observations of one call *)

\* the stages passed to transformersRunner.transform so far, in call order
StageSeq ==
    LET calls == SelectSeq(trace, LAMBDA e : e.ev = "transform")
    IN  [i \in 1..Len(calls) |-> calls[i].arg]

CountEv(ev) == Len(SelectSeq(trace, LAMBDA e : e.ev = ev))
CountStage(stage) == Len(SelectSeq(StageSeq, LAMBDA x : x = stage))
IsPrefix(a, b) == Len(a) <= Len(b) /\ \A i \in 1..Len(a) : a[i] = b[i]

StageRank(stage) ==
    CASE stage = "Preparing" -> 1
      [] stage = "DeadCodeInjection" -> 2
      [] stage = "ControlFlowFlattening" -> 3
      [] stage = "Converting" -> 4
      [] stage = "Obfuscating" -> 5
      [] stage = "Finalizing" -> 6

AlwaysOnStages == <<"Preparing", "Converting", "Obfuscating", "Finalizing">>
NonGated(stage) ==
    stage \in {"Preparing", "Converting", "Obfuscating", "Finalizing"}

\* the parser has returned a tree for this call
Parsed == parsedTree # NoTree
\* the canonical empty program: no statement, no leading comments
EmptyProgram(t) ==
    t.type = "Program" /\ t.body = 0 /\ t.leadingComments = Undefined
NonDegenerate == Parsed /\ ~EmptyProgram(parsedTree)
\* transformAstTree has returned normally
TransformReturned ==
    pc \in {"generateCode", "logSuccess", "getObfuscationResult", "returned"}
        \/ Len(generateArgs) > 0

----------------------------------------------------------------------------
(* C1: a non-degenerate input with deadCodeInjection and                    *)
(* controlFlowFlattening both false runs the stages Preparing, Converting,  *)
(* Obfuscating, Finalizing: at every moment the stages invoked are a prefix *)
(* of that sequence, and once transformAstTree has returned they are        *)
(* exactly that sequence                                                    *)
C1_FourStagesInOrder ==
    (NonDegenerate /\ ~options.deadCodeInjection
                   /\ ~options.controlFlowFlattening)
        => /\ IsPrefix(StageSeq, AlwaysOnStages)
           /\ TransformReturned => StageSeq = AlwaysOnStages

C1_Witness ==
    /\ pc = "returned"
    /\ NonDegenerate
    /\ ~options.deadCodeInjection /\ ~options.controlFlowFlattening
    /\ StageSeq = AlwaysOnStages

(* C2: for an empty program no stage is invoked and the tree given to the   *)
(* generator is the object the parser returned                              *)
C2_EmptyProgramShortCircuit ==
    (Parsed /\ EmptyProgram(parsedTree))
        => /\ StageSeq = <<>>
           /\ transformArgs = <<>>
           /\ astTree = parsedTree
           /\ \A i \in 1..Len(generateArgs) :
                /\ generateArgs[i].astTree = parsedTree
                /\ generateArgs[i].astTree.id = parsedTree.id

C2_Witness ==
    /\ Parsed /\ EmptyProgram(parsedTree)
    /\ options.deadCodeInjection
    /\ Len(generateArgs) = 1
    /\ generateArgs[1].astTree.id = parsedTree.id
    /\ StageSeq = <<>>

(* C3: a gated stage whose flag is true is invoked exactly once in a run    *)
(* whose stages all return, and the stages invoked are always in strictly   *)
(* increasing enumeration order, so it comes after every earlier stage and  *)
(* before every later one                                                   *)
C3_EnabledGateOnceInOrder ==
    NonDegenerate
        => /\ \A i, j \in 1..Len(StageSeq) :
                i < j => StageRank(StageSeq[i]) < StageRank(StageSeq[j])
           /\ TransformReturned =>
                /\ options.deadCodeInjection =>
                     /\ CountStage("DeadCodeInjection") = 1
                     /\ StageSeq[2] = "DeadCodeInjection"
                /\ options.controlFlowFlattening =>
                     /\ CountStage("ControlFlowFlattening") = 1
                     /\ StageSeq[Len(StageSeq) - 3] = "ControlFlowFlattening"
                /\ StageSeq[1] = "Preparing"
                /\ SubSeq(StageSeq, Len(StageSeq) - 2, Len(StageSeq))
                     = <<"Converting", "Obfuscating", "Finalizing">>

C3_Witness ==
    /\ pc = "returned"
    /\ options.deadCodeInjection /\ options.controlFlowFlattening
    /\ StageSeq = <<"Preparing", "DeadCodeInjection", "ControlFlowFlattening",
                    "Converting", "Obfuscating", "Finalizing">>

(* C4: a gated stage whose flag is false is never invoked; with             *)
(* deadCodeInjection true and controlFlowFlattening false the stages of a   *)
(* run whose stages all return are Preparing, DeadCodeInjection,            *)
(* Converting, Obfuscating, Finalizing                                      *)
C4_DisabledGateNeverRuns ==
    /\ ~options.deadCodeInjection => CountStage("DeadCodeInjection") = 0
    /\ ~options.controlFlowFlattening
            => CountStage("ControlFlowFlattening") = 0
    /\ (NonDegenerate /\ TransformReturned /\ options.deadCodeInjection
                      /\ ~options.controlFlowFlattening)
            => StageSeq = <<"Preparing", "DeadCodeInjection", "Converting",
                            "Obfuscating", "Finalizing">>

C4_Witness ==
    /\ pc = "returned"
    /\ options.deadCodeInjection /\ ~options.controlFlowFlattening
    /\ StageSeq = <<"Preparing", "DeadCodeInjection", "Converting",
                    "Obfuscating", "Finalizing">>

(* C5: whatever the two gate flags, the non-gated stages of a run whose     *)
(* stages all return are Preparing, Converting, Obfuscating, Finalizing,    *)
(* each once and in that order                                              *)
C5_NonGatedStagesOnce ==
    (NonDegenerate /\ TransformReturned)
        => SelectSeq(StageSeq, NonGated) = AlwaysOnStages

C5_Witness ==
    /\ pc = "returned"
    /\ ~options.deadCodeInjection /\ options.controlFlowFlattening
    /\ Len(StageSeq) = 5
    /\ SelectSeq(StageSeq, NonGated) = AlwaysOnStages

(* C6: when options.sourceMap is false, the map handed to the source map    *)
(* corrector, and the map of the result, is the empty string, never null    *)
(* or undefined                                                             *)
C6_NoMappingIsEmptyString ==
    ~options.sourceMap
        => /\ Len(generateArgs) > 0 /\ raised.by # "generate"
                => generatorOutput.map = Str("")
           /\ \A i \in 1..Len(correctArgs) :
                /\ correctArgs[i].map = Str("")
                /\ correctArgs[i].map \notin {Null, Undefined}
           /\ pc = "returned"
                => /\ result.sourceMap = Str("")
                   /\ result.sourceMap \notin {Null, Undefined}

C6_Witness ==
    /\ pc = "returned"
    /\ ~options.sourceMap
    /\ Len(correctArgs) = 1
    /\ correctArgs[1].map = Str("")
    /\ result.sourceMap = Str("")

(* C7: when the transformers runner throws in a stage, the call ends there: *)
(* the failing transform call is the last event of the call, the stage was  *)
(* invoked once, the generator and the corrector are not invoked, no        *)
(* success is logged and no result is returned                              *)
C7_StageFailureAborts ==
    raised.by = "transform"
        => /\ pc = "threw"
           /\ Len(trace) = raised.pos
           /\ trace[raised.pos] = Call("transform", raised.stage)
           /\ CountStage(raised.stage) = 1
           /\ \A i \in 1..Len(StageSeq) :
                StageRank(StageSeq[i]) <= StageRank(raised.stage)
           /\ CountEv("generate") = 0 /\ generateArgs = <<>>
           /\ CountEv("correct") = 0 /\ correctArgs = <<>>
           /\ CountEv("success") = 0
           /\ result = NoResult

C7_Witness ==
    /\ raised.by = "transform"
    /\ raised.stage = "Converting"
    /\ pc = "threw"
    /\ Len(StageSeq) >= 2

(* C8, as claimed: the error obfuscate() throws for a failure in stage S is *)
(* a TransformError that carries S                                          *)
C8_ErrorNamesStage ==
    (raised.by = "transform" /\ pc = "threw")
        => /\ error.name = "TransformError"
           /\ error.stage = raised.stage

(* C8, amended: the error obfuscate() throws for a failure in stage S is    *)
(* the value the transformers runner threw, unchanged; S is named by the    *)
(* TransformationStage log event that immediately precedes the failing      *)
(* transform call                                                           *)
C8_ErrorIsRunnerError ==
    raised.by = "transform"
        => /\ pc = "threw"
           /\ error = raised.e
           /\ error \in TransformFaults
           /\ trace[raised.pos - 1] = Info("TransformationStage", raised.stage)

C8_Witness ==
    /\ raised.by = "transform"
    /\ raised.stage = "Obfuscating"
    /\ pc = "threw"
    /\ error.name = "TypeError"

(* C9: when the parser throws, obfuscate() throws that same error, the      *)
(* parser was called once, and nothing follows the parse call: no stage,    *)
(* no generator, no corrector, no success event, no result                  *)
C9_ParseFailureSurfaces ==
    raised.by = "parse"
        => /\ pc = "threw"
           /\ error = raised.e
           /\ Len(parseArgs) = 1 /\ CountEv("parse") = 1
           /\ Len(trace) = raised.pos
           /\ StageSeq = <<>> /\ transformArgs = <<>>
           /\ generateArgs = <<>> /\ correctArgs = <<>>
           /\ CountEv("success") = 0
           /\ result = NoResult /\ generatorOutput = NoOutput

C9_Witness ==
    /\ raised.by = "parse"
    /\ pc = "threw"
    /\ error \in ParseFaults
    /\ trace[Len(trace)].ev = "parse"

(* C10: when the generator throws, obfuscate() throws that error, the       *)
(* generator was called once, and nothing follows: the corrector is not     *)
(* invoked, no success event is logged, no result is returned               *)
C10_GenerateFailureSurfaces ==
    raised.by = "generate"
        => /\ pc = "threw"
           /\ error = raised.e
           /\ Len(generateArgs) = 1 /\ CountEv("generate") = 1
           /\ Len(trace) = raised.pos
           /\ CountEv("correct") = 0 /\ correctArgs = <<>>
           /\ CountEv("success") = 0
           /\ result = NoResult

C10_Witness ==
    /\ raised.by = "generate"
    /\ pc = "threw"
    /\ error \in GenerateFaults
    /\ Len(StageSeq) = 6
    /\ trace[Len(trace)].ev = "generate"

(* C11, as claimed: every invoked stage has exactly one log event naming   *)
(* it, emitted after the stage's transform call, so a stage whose call      *)
(* throws has none                                                          *)
C11_StageLoggedAfterCall ==
    \A i \in 1..Len(trace) :
        trace[i].ev = "transform"
            => LET named == {j \in 1..Len(trace) :
                        trace[j] = Info("TransformationStage", trace[i].arg)}
               IN  IF raised.by = "transform" /\ raised.pos = i
                     THEN named = {}
                     ELSE Cardinality(named) = 1 /\ \A j \in named : j > i

(* C11, amended: every invoked stage has exactly one log event naming it,   *)
(* emitted immediately before the stage's transform call, so a stage whose  *)
(* call throws has its event too                                            *)
C11_StageLoggedBeforeCall ==
    /\ \A i \in 1..Len(trace) :
        trace[i].ev = "transform"
            => /\ i > 1
               /\ trace[i - 1] = Info("TransformationStage", trace[i].arg)
               /\ Cardinality({j \in 1..Len(trace) :
                    trace[j] = Info("TransformationStage", trace[i].arg)}) = 1
    /\ \A j \in 1..Len(trace) :
        (trace[j].ev = "info" /\ trace[j].msg = "TransformationStage")
            => /\ j < Len(trace)
               /\ trace[j + 1] = Call("transform", trace[j].arg)

C11_Witness ==
    /\ raised.by = "transform"
    /\ raised.stage = "Finalizing"
    /\ pc = "threw"
    /\ trace[Len(trace) - 1] = Info("TransformationStage", "Finalizing")
    /\ trace[Len(trace)] = Call("transform", "Finalizing")

(* C12: an empty program is not an error: for any gate flags the call logs  *)
(* one warning, invokes no stage, and goes on to the generator and the      *)
(* corrector, once each; it returns a result unless one of those two throws *)
C12_EmptyProgramIsNotAnError ==
    (Parsed /\ EmptyProgram(parsedTree))
        => /\ StageSeq = <<>>
           /\ raised.by \in {"none", "generate", "correct"}
           /\ CountEv("warn") = IF pc = "transformAstTree" THEN 0 ELSE 1
           /\ \A i \in 1..Len(trace) :
                trace[i].ev = "warn" => trace[i] = Warn("EmptySourceCode")
           /\ CountEv("generate") <= 1 /\ CountEv("correct") <= 1
           /\ pc = "threw" => raised.by \in {"generate", "correct"}
           /\ pc = "returned"
                => /\ CountEv("generate") = 1 /\ Len(generateArgs) = 1
                   /\ CountEv("correct") = 1 /\ Len(correctArgs) = 1
                   /\ result # NoResult
                   /\ error = NoError

C12_Witness ==
    /\ Parsed /\ EmptyProgram(parsedTree)
    /\ options.deadCodeInjection /\ options.controlFlowFlattening
    /\ pc = "returned"
    /\ CountEv("warn") = 1
    /\ StageSeq = <<>>
    /\ result # NoResult

(* C13: the early return is taken exactly for the canonical empty program. *)
(* A tree with leading comments and no statement, or with a statement, gets *)
(* no warning and runs Preparing, Converting, Obfuscating and Finalizing    *)
C13_ShortCircuitIffEmpty ==
    (Parsed /\ pc # "transformAstTree")
        => /\ CountEv("warn") = (IF EmptyProgram(parsedTree) THEN 1 ELSE 0)
           /\ (StageSeq = <<>> /\ pc # "Preparing")
                <=> EmptyProgram(parsedTree)
           /\ (~EmptyProgram(parsedTree) /\ TransformReturned)
                => \A s \in {"Preparing", "Converting", "Obfuscating",
                             "Finalizing"} : CountStage(s) = 1

C13_Witness ==
    /\ Parsed
    /\ parsedTree.body = 0
    /\ parsedTree.leadingComments # Undefined
    /\ pc = "returned"
    /\ CountEv("warn") = 0
    /\ SelectSeq(StageSeq, NonGated) = AlwaysOnStages

(* C14: trees flow linearly: the first stage gets the parser's tree, every  *)
(* later stage gets the tree the stage invoked just before it returned, and *)
(* the generator gets the tree Finalizing returned                          *)
C14_TreesFlowLinearly ==
    /\ Len(transformArgs) > 0 => transformArgs[1].astTree = parsedTree
    /\ \A i \in 1..(Len(transformArgs) - 1) :
            /\ transformArgs[i].out # NoTree
            /\ transformArgs[i + 1].astTree = transformArgs[i].out
            /\ transformArgs[i + 1].astTree.id = transformArgs[i].out.id
    /\ \A k \in 1..Len(generateArgs) :
            NonDegenerate
                => /\ transformArgs[Len(transformArgs)].stage = "Finalizing"
                   /\ generateArgs[k].astTree
                        = transformArgs[Len(transformArgs)].out
                   /\ generateArgs[k].astTree.id
                        = transformArgs[Len(transformArgs)].out.id

C14_Witness ==
    /\ Len(generateArgs) = 1
    /\ Len(transformArgs) = 5
    /\ transformArgs[2].astTree.id # parsedTree.id
    /\ transformArgs[5].out.id # transformArgs[5].astTree.id
    /\ generateArgs[1].astTree.id = transformArgs[5].out.id

(* C15: the generator options depend on the options only: a map is         *)
(* requested and the source text attached exactly when options.sourceMap is *)
(* true, format.compact is options.compact in both cases, and the parser is *)
(* asked for locations exactly when options.sourceMap is true               *)
C15_GeneratorOptionsFollowConfig ==
    /\ \A k \in 1..Len(generateArgs) :
        LET p == generateArgs[k].params IN
            /\ p.sourceMap = (IF options.sourceMap THEN Str("sourceMap")
                                                   ELSE Undefined)
            /\ p.sourceContent = (IF options.sourceMap THEN Str(sourceCode)
                                                       ELSE Undefined)
            /\ p.format.compact = options.compact
            /\ p.comment = Bool(TRUE)
            /\ p.sourceMapWithCode = Bool(TRUE)
    /\ \A k \in 1..Len(parseArgs) :
            /\ parseArgs[k].loc = options.sourceMap
            /\ parseArgs[k].attachComment
            /\ parseArgs[k].sourceCode = sourceCode

C15_Witness ==
    /\ Len(generateArgs) = 1
    /\ ~options.sourceMap /\ options.compact
    /\ generateArgs[1].params.format.compact
    /\ generateArgs[1].params.sourceMap = Undefined
    /\ ~parseArgs[1].loc

(* C16: in a call that returns, the parser, the generator and the          *)
(* corrector are invoked once each, in the order parse, stages, generate,   *)
(* correct, and the value returned is the one the corrector returned; in    *)
(* any call no stage is invoked before the parser has returned or after the *)
(* generator was invoked                                                    *)
C16_ParseStagesGenerateCorrect ==
    LET At(ev) == {i \in 1..Len(trace) : trace[i].ev = ev} IN
    /\ \A s \in At("transform") :
            /\ \E p \in At("parse") : p < s
            /\ \A g \in At("generate") : s < g
            /\ Parsed
    /\ \A c \in At("correct") : \E g \in At("generate") : g < c
    /\ \A g \in At("generate") : \E p \in At("parse") : p < g
    /\ pc = "returned"
        => /\ Cardinality(At("parse")) = 1 /\ Len(parseArgs) = 1
           /\ Cardinality(At("generate")) = 1 /\ Len(generateArgs) = 1
           /\ Cardinality(At("correct")) = 1 /\ Len(correctArgs) = 1
           /\ trace[Len(trace)].ev = "correct"
           /\ correctArgs[1].code = generatorOutput.code
           /\ correctArgs[1].map = generatorOutput.map
           /\ result = correctArgs[1].out
           /\ result # NoResult

C16_Witness ==
    /\ pc = "returned"
    /\ options.sourceMap
    /\ Len(StageSeq) = 4
    /\ result = correctArgs[1].out
    /\ result.obfuscatedCode # correctArgs[1].code

(* C17: no step of a call changes the options or the transformers list,    *)
(* whether the call returns, takes the early return or throws, and every    *)
(* transform call of the call is given the whole static list in its order   *)
C17_ConfigAndRegistryUntouched ==
    [][(pc # "idle" \/ pc' # "idle")
        => /\ options' = options
           /\ transformersList' = transformersList
           /\ transformersList' = TransformersListStatic
           /\ \A i \in 1..Len(transformArgs') :
                transformArgs'[i].transformers = TransformersListStatic]_vars

C17_Witness ==
    /\ pc = "threw"
    /\ raised.by = "transform"
    /\ Len(transformArgs) = 3
    /\ transformArgs[2].stage = "DeadCodeInjection"
    /\ \A i \in 1..3 : Len(transformArgs[i].transformers) = 21
    /\ transformersList = TransformersListStatic

\* position of a call in the text of obfuscate() and transformAstTree()
PcRank(p) ==
    CASE p = "idle" -> 0
      [] p = "parseCode" -> 1
      [] p = "transformAstTree" -> 2
      [] p = "Preparing" -> 3
      [] p = "DeadCodeInjection" -> 4
      [] p = "ControlFlowFlattening" -> 5
      [] p = "Converting" -> 6
      [] p = "Obfuscating" -> 7
      [] p = "Finalizing" -> 8
      [] p = "generateCode" -> 9
      [] p = "logSuccess" -> 10
      [] p = "getObfuscationResult" -> 11
      [] p = "returned" -> 12
      [] p = "threw" -> 12

(* C18: when every collaborator call returns or throws, every call of       *)
(* obfuscate() ends by returning or throwing, after at most six transform   *)
(* calls, none for a stage already invoked, and every step of the call      *)
(* moves forward in the code                                                *)
C18_CallTerminates ==
    /\ [](/\ Len(transformArgs) <= 6
          /\ Len(StageSeq) = Len(transformArgs)
          /\ \A s \in TransformationStage : CountStage(s) <= 1)
    /\ [][pc \notin {"idle", "returned", "threw"}
            => PcRank(pc') > PcRank(pc)]_vars
    /\ (pc = "parseCode") ~> (pc \in {"returned", "threw"})

C18_Witness ==
    /\ pc = "returned"
    /\ Len(transformArgs) = 6
    /\ \A s \in TransformationStage : CountStage(s) = 1

(* C19: generateCode works on a copy of the static escodegenParams, which  *)
(* therefore never changes: in a call with options.sourceMap false the      *)
(* generator gets no map request and no source text, also after earlier     *)
(* calls, on other instances, that had options.sourceMap true               *)
C19_StaticParamsNotShared ==
    /\ escodegenParams = EscodegenParamsStatic
    /\ \A k \in 1..Len(generateArgs) :
        ~options.sourceMap
            => /\ ~Truthy(generateArgs[k].params.sourceMap)
               /\ generateArgs[k].params.sourceMap = Undefined
               /\ generateArgs[k].params.sourceContent = Undefined

C19_Witness ==
    /\ sourceMapUsed
    /\ ~options.sourceMap
    /\ Len(generateArgs) = 1
    /\ generateArgs[1].params.sourceContent = Undefined
    /\ escodegenParams = EscodegenParamsStatic

(* C20: the success event is logged at most once in a call, right after    *)
(* the generator has returned normally and before the corrector is          *)
(* invoked, and every corrector call follows it; so when the corrector      *)
(* throws, success has been logged although no result is returned           *)
C20_SuccessBeforeCorrector ==
    LET At(ev) == {i \in 1..Len(trace) : trace[i].ev = ev} IN
    /\ Cardinality(At("success")) <= 1
    /\ \A s \in At("success") :
            /\ trace[s] = Success("ObfuscationCompleted")
            /\ s > 1 /\ trace[s - 1].ev = "generate"
            /\ raised.by # "generate"
            /\ generatorOutput # NoOutput
            /\ \A c \in At("correct") : s < c
    /\ \A c \in At("correct") : c > 1 /\ trace[c - 1].ev = "success"
    /\ raised.by = "correct"
            => /\ Cardinality(At("success")) = 1
               /\ pc = "threw" /\ result = NoResult

C20_Witness ==
    /\ pc = "threw"
    /\ raised.by = "correct"
    /\ CountEv("success") = 1
    /\ result = NoResult
    /\ error \in CorrectFaults

====
